---- MODULE Spec2Model ----
(***************************************************************************)
(* State-machine model of the Deribit WebSocket tester                     *)
(* (src/websocket_tester.py), of the WebSocket loop of the performance     *)
(* monitor (src/performance_monitor.py) and of the result log of the       *)
(* connectivity test suite (src/deribit_tester.py).                        *)
(*                                                                         *)
(* Time is discrete and counted in seconds; one second is the receive      *)
(* timeout of every receive loop.  A coroutine advances from one await to  *)
(* the next in one atomic step (asyncio runs one task at a time and        *)
(* switches only at an await).  Timed awaits (connect, the authentication  *)
(* response, a receive) let the clock pass up to their timeout; the other  *)
(* awaits (send, close) complete without the clock passing.                *)
(*                                                                         *)
(* A stress session reads the clock only as the difference                 *)
(* time.time() - start_time, kept as the session's `elapsed`, and its      *)
(* connect and authentication awaits let any amount of time pass (how long *)
(* they took is not visible to a stress session).  The single-connection   *)
(* run modes keep the wall clock `now` and time every await.               *)
(***************************************************************************)
EXTENDS Integers, Sequences, FiniteSets, TLC

\* ------------------------------------------------------------------ bounds

\* Longest time (seconds) a connection attempt of a single-connection run
\* mode takes.
MaxConnectDelay == 5
\* Largest number of concurrent stress sessions explored.
MaxConnections == 2
\* Largest configured duration (seconds) explored.
MaxDuration == 1
\* Most messages counted in one stress run.
MaxMessages == 2

\* ------------------------------------------------------- program constants

\* asyncio.wait_for(websocket.recv(), timeout=1.0)
RecvTimeout == 1
\* asyncio.wait_for(websocket.recv(), timeout=10) in authenticate
AuthTimeout == 10
\* if latency > 0 and latency < 10000
LatencyUpperBound == 10000
\* server_time = timestamp / 1000 ; latency = (...) * 1000
MsPerSecond == 1000
\* await asyncio.sleep(1) in reconnection_test
RetryPause == 1

\* ------------------------------------------------------------------- state

VARIABLES
    test_type,            \* args.test_type: the run mode main() dispatches to
                          \* ("monitor" and "suite" stand for the other two programs)
    has_credentials,      \* self.client_id and self.client_secret are both set
    num_connections,      \* stress_test(num_connections, ...)
    duration,             \* the duration argument of the run mode
    now,                  \* time.time() in whole seconds since the run started
    is_running,           \* self.is_running
    total_messages,       \* self.total_messages
    connection_count,     \* self.connection_count
    reconnection_count,   \* self.reconnection_count
    messages,             \* self.messages
    session,              \* per stress session: its coroutine's state (below)
    coord_pc,             \* stress_test: "gather" or "returned"
    disconnection_interval, \* reconnection_test(disconnection_interval, ...)
    channels,             \* tick_by_tick_delay_test(..., channels)
    task,                 \* the coroutine of a single-connection run mode (below)
    latencies,            \* latency_test: local latencies
    tick_data,            \* tick_by_tick_delay_test: local tick_data
    report,               \* what _analyze_tick_data produced (None before)
    monitor,              \* PerformanceMonitor.monitor_websocket_performance (below)
    tester                \* DeribitTester: its result log and run_all_tests (below)

\* session[i] is a record:
\*   pc                   the await the coroutine is suspended at, or how it
\*                        ended: "completed" (line 164) or "failed" (line 167)
\*   waited               seconds spent in its current timed await
\*   elapsed              time.time() - start_time
\*   connection_messages  local connection_messages (kept as logged at line 164)
\*   recvs_since_stop     receive attempts in flight at or begun after the stop signal
\*   connected            whether websockets.connect has succeeded (line 111)
\*   auth_sent            whether the authentication message was sent (line 75)
\*   subscriptions        subscription requests sent on the connection (line 103)

\* task is a record:
\*   pc                   the await the coroutine is suspended at, or how it
\*                        ended: "completed" or "failed" (the outer except)
\*   wait_began           `now` when its current timed await began
\*   start_time           local start_time
\*   connection_start     reconnection_test: local connection_start
\*   count                local message_count (reconnection_test) or tick_count
\*                        (tick_by_tick_delay_test); in latency_test the number
\*                        of frames received
\*   socket_open          whether the `async with` block holds an open socket
\*   since_stop           seconds since the stop signal, counted up to
\*                        RecvTimeout + 1 (0 before the signal)
\*   connects_since_stop  connection attempts begun after the stop signal,
\*                        counted up to 1
\*   raised               whether an exception has reached the outer handler
\*   peer_closed          whether a receive on the open socket has raised
\*                        ConnectionClosed (every later receive on it does too)

\* monitor is a record:
\*   pc                   the await the coroutine is suspended at, or "done"
\*   expired              whether datetime.now() - start_time has reached
\*                        self.duration
\*   message_count        local message_count
\*   latencies            local latencies
\*   ws_metrics           self.ws_metrics; of each entry the fields
\*                        message_count and latency

\* tester is a record:
\*   pc                   the number of the probe run_all_tests is at
\*   results              self.results; of each TestResult the fields
\*                        test_name and success
\*   total_tests          self.total_tests
\*   passed_tests         self.passed_tests
\*   failed_tests         self.failed_tests

cfg_vars == <<test_type, has_credentials, num_connections, duration,
              disconnection_interval, channels>>
clock_vars == <<now>>
counter_vars == <<total_messages, connection_count, reconnection_count, messages>>
single_vars == <<task, latencies, tick_data, report>>
stress_vars == <<session, coord_pc>>
other_vars == <<monitor, tester>>

vars == <<cfg_vars, clock_vars, is_running, counter_vars, stress_vars, single_vars,
          other_vars>>

\* ----------------------------------------------------------------- helpers

\* Python's None / an optional value, as a sequence of length 0 or 1.
None == <<>>
Some(x) == <<x>>

RECURSIVE SumOver(_, _)
SumOver(f, S) ==
    IF S = {} THEN 0
    ELSE LET x == CHOOSE y \in S : TRUE
         IN  f[x] + SumOver(f, S \ {x})

Sessions == DOMAIN session

\* ------------------------------------------------------------------ frames

\* Channel names are sequences of characters.
ChanTicker == <<"t">>

\* datetime.now() at the receipt of a frame, in milliseconds.
ReceiveMs == 50 * MsPerSecond

\* A frame that json.loads rejects.
BadFrame == [kind |-> "bad"]
\* A frame that decodes to a JSON value that is no object (e.g. a number).
NonDictFrame == [kind |-> "nondict"]
\* An id-correlated RPC response: an object without "params".
RpcFrame == [kind |-> "rpc"]
\* A channel notification; timestamp is None or Some(ms).
Notification(ch, ts) == [kind |-> "notification", channel |-> ch, timestamp |-> ts]

\* Ages (receive time minus producer timestamp, in ms) of the notifications
\* the server sends to a stress session.
StressAges == {-5, 100}

StressFrames ==
    {BadFrame, NonDictFrame, RpcFrame}
    \cup {Notification(ChanTicker, Some(ReceiveMs - a)) : a \in StressAges}

\* json.loads(message): whether it raises.
DecodeFails(frame) == frame.kind = "bad"

\* (receive_time - timestamp / 1000) * 1000
LatencyMs(receive_ms, timestamp_ms) == receive_ms - timestamp_ms

\* Lines 134-138: the latency of a decoded message, None without a timestamp.
MessageLatency(frame) ==
    IF frame.kind = "notification" /\ frame.timestamp # None
    THEN Some(LatencyMs(ReceiveMs, frame.timestamp[1]))
    ELSE None

\* Lines 141-147: the stored WebSocketMessage.
MakeWsMessage(frame) ==
    [channel |-> IF frame.kind = "notification" THEN frame.channel ELSE <<"unknown">>,
     latency |-> MessageLatency(frame)]

\* Whether lines 135-147 raise on the decoded value: `'params' in data` and
\* data.get need a container / a dict.
ProcessingFails(frame) == frame.kind = "nondict"

\* ---------------------------------------------------------- stress session

\* Mutant of LoopCondition: the loop does not look at is_running.
LoopConditionIgnoringStop(running, since_start, dur) == since_start < dur

\* Mutant of LoopCondition: the loop runs while elapsed <= duration.
LoopConditionInclusive(running, since_start, dur) == running /\ since_start <= dur

\* while self.is_running and (time.time() - start_time) < duration
LoopCondition(running, since_start, dur) == running /\ since_start < dur

\* connection_messages += 1
IncConnectionMessages(n) == n + 1

\* Mutant of IncTotalMessages: the increment is lost.
IncTotalMessagesLost(n) == n

\* self.total_messages += 1
IncTotalMessages(n) == n + 1

\* The head of the while loop (line 124), reached with the session record s:
\* the session starts its next receive or leaves the loop for the end of the
\* `async with` block.
LoopHead(s) ==
    IF LoopCondition(is_running, s.elapsed, duration)
    THEN [s EXCEPT !.pc = "recv", !.waited = 0,
                   !.recvs_since_stop = IF is_running THEN @ ELSE @ + 1]
    ELSE [s EXCEPT !.pc = "close", !.waited = 0, !.elapsed = 0]

\* break
BreakLoop(s) == [s EXCEPT !.pc = "close", !.waited = 0, !.elapsed = 0]

\* Mutant of SessionFailed: the failure handler stops the whole run.
SessionFailedStopsRun(i) ==
    /\ reconnection_count' = reconnection_count + 1
    /\ is_running' = FALSE
    /\ session' = [session EXCEPT ![i].pc = "failed",
                                  ![i].waited = 0, ![i].elapsed = 0]
    /\ UNCHANGED <<cfg_vars, other_vars, single_vars, clock_vars, total_messages,
                   connection_count, messages, coord_pc>>

\* except Exception (lines 166-168): the session failed.
SessionFailed(i) ==
    /\ reconnection_count' = reconnection_count + 1
    /\ session' = [session EXCEPT ![i].pc = "failed",
                                  ![i].waited = 0, ![i].elapsed = 0]
    /\ UNCHANGED <<cfg_vars, other_vars, single_vars, clock_vars, is_running, total_messages,
                   connection_count, messages, coord_pc>>

\* Mutant of ConnectOk: the connection is not counted.
ConnectOkUncounted(i) ==
    /\ session[i].pc = "connect"
    /\ session' = [session EXCEPT
                      ![i].pc = IF has_credentials THEN "auth_send" ELSE "subscribe",
                      ![i].waited = 0,
                      ![i].connected = TRUE]
    /\ UNCHANGED <<cfg_vars, other_vars, single_vars, clock_vars, is_running, counter_vars,
                   coord_pc>>

\* Mutant of ConnectOk: authenticate sends its message without credentials.
ConnectOkAlwaysAuth(i) ==
    /\ session[i].pc = "connect"
    /\ connection_count' = connection_count + 1
    /\ session' = [session EXCEPT
                      ![i].pc = "auth_send",
                      ![i].waited = 0,
                      ![i].connected = TRUE]
    /\ UNCHANGED <<cfg_vars, other_vars, single_vars, clock_vars, is_running, total_messages,
                   reconnection_count, messages, coord_pc>>

\* websockets.connect succeeded: lines 112-116 up to the first await inside.
ConnectOk(i) ==
    /\ session[i].pc = "connect"
    /\ connection_count' = connection_count + 1
    /\ session' = [session EXCEPT
                      ![i].pc = IF has_credentials THEN "auth_send" ELSE "subscribe",
                      ![i].waited = 0,
                      ![i].connected = TRUE]
    /\ UNCHANGED <<cfg_vars, other_vars, single_vars, clock_vars, is_running, total_messages,
                   reconnection_count, messages, coord_pc>>

\* websockets.connect raised.
ConnectFail(i) ==
    /\ session[i].pc = "connect"
    /\ SessionFailed(i)

\* authenticate: websocket.send(auth_message) completed (line 75).
AuthSendOk(i) ==
    /\ session[i].pc = "auth_send"
    /\ session' = [session EXCEPT ![i].pc = "auth_recv", ![i].waited = 0,
                                  ![i].auth_sent = TRUE]
    /\ UNCHANGED <<cfg_vars, other_vars, single_vars, clock_vars, is_running, counter_vars, coord_pc>>

\* authenticate: websocket.send raised (line 75, outside authenticate's try).
AuthSendFail(i) ==
    /\ session[i].pc = "auth_send"
    /\ SessionFailed(i)

\* authenticate returned (lines 78-90): a response, an error response, an
\* undecodable response, a receive error or the 10 s timeout; the caller
\* drops the result (line 116).
AuthReturned(i) ==
    /\ session[i].pc = "auth_recv"
    /\ session' = [session EXCEPT ![i].pc = "subscribe", ![i].waited = 0]
    /\ UNCHANGED <<cfg_vars, other_vars, single_vars, clock_vars, is_running, counter_vars, coord_pc>>

\* subscribe_to_channels sent (line 119); lines 121-124.
SubscribeOk(i) ==
    /\ session[i].pc = "subscribe"
    /\ session' = [session EXCEPT
                      ![i] = LoopHead([@ EXCEPT !.elapsed = 0,
                                                !.connection_messages = 0,
                                                !.subscriptions = @ + 1])]
    /\ UNCHANGED <<cfg_vars, other_vars, single_vars, clock_vars, is_running, counter_vars, coord_pc>>

\* subscribe_to_channels: websocket.send raised (line 103).
SubscribeFail(i) ==
    /\ session[i].pc = "subscribe"
    /\ SessionFailed(i)

\* Lines 126-149: a frame arrives within the timeout and is decoded, counted
\* and stored; the loop goes on.
RecvMessage(i, frame) ==
    /\ session[i].pc = "recv"
    /\ total_messages < MaxMessages
    /\ ~DecodeFails(frame) /\ ~ProcessingFails(frame)
    /\ total_messages' = IncTotalMessages(total_messages)
    /\ messages' = Append(messages, MakeWsMessage(frame))
    /\ session' = [session EXCEPT
                      ![i] = LoopHead([@ EXCEPT
                                 !.connection_messages = IncConnectionMessages(@)])]
    /\ UNCHANGED <<cfg_vars, other_vars, single_vars, clock_vars, is_running, connection_count,
                   reconnection_count, coord_pc>>

\* Lines 126-129, 160-162: json.loads raises on the frame.
RecvUndecodable(i, frame) ==
    /\ session[i].pc = "recv"
    /\ DecodeFails(frame)
    /\ session' = [session EXCEPT
                      ![i] = BreakLoop(@)]
    /\ UNCHANGED <<cfg_vars, other_vars, single_vars, clock_vars, is_running, counter_vars, coord_pc>>

\* Lines 126-147, 160-162: the frame decodes and is counted, then its
\* processing raises before the message is stored.
RecvUnprocessable(i, frame) ==
    /\ session[i].pc = "recv"
    /\ total_messages < MaxMessages
    /\ ~DecodeFails(frame) /\ ProcessingFails(frame)
    /\ total_messages' = IncTotalMessages(total_messages)
    /\ session' = [session EXCEPT
                      ![i] = BreakLoop([@ EXCEPT
                                 !.connection_messages = IncConnectionMessages(@)])]
    /\ UNCHANGED <<cfg_vars, other_vars, single_vars, clock_vars, is_running, connection_count,
                   reconnection_count, messages, coord_pc>>

\* Mutant of RecvTimedOut: the timeout is counted as a received message.
RecvTimedOutCounted(i) ==
    /\ session[i].pc = "recv"
    /\ session[i].waited >= RecvTimeout
    /\ total_messages' = IncTotalMessages(total_messages)
    /\ session' = [session EXCEPT
                      ![i] = LoopHead([@ EXCEPT
                                 !.connection_messages = IncConnectionMessages(@)])]
    /\ UNCHANGED <<cfg_vars, other_vars, single_vars, clock_vars, is_running, connection_count,
                   reconnection_count, messages, coord_pc>>

\* except asyncio.TimeoutError: continue (lines 155-156)
RecvTimedOut(i) ==
    /\ session[i].pc = "recv"
    /\ session[i].waited >= RecvTimeout
    /\ session' = [session EXCEPT ![i] = LoopHead(@)]
    /\ UNCHANGED <<cfg_vars, other_vars, single_vars, clock_vars, is_running, counter_vars, coord_pc>>

\* except websockets.exceptions.ConnectionClosed: break (lines 157-159)
RecvClosed(i) ==
    /\ session[i].pc = "recv"
    /\ session' = [session EXCEPT ![i] = BreakLoop(@)]
    /\ UNCHANGED <<cfg_vars, other_vars, single_vars, clock_vars, is_running, counter_vars, coord_pc>>

\* Line 164 and the exit of `async with`: the socket is closed and the
\* coroutine returns.
CloseSession(i) ==
    /\ session[i].pc = "close"
    /\ session' = [session EXCEPT ![i].pc = "completed"]
    /\ UNCHANGED <<cfg_vars, other_vars, single_vars, clock_vars, is_running, counter_vars, coord_pc>>

\* The coroutine has returned.
Returned(s) == s.pc \in {"completed", "failed"}

AllDone == \A i \in Sessions : Returned(session[i])

\* asyncio.gather returned (line 190); print_statistics.
GatherDone ==
    /\ coord_pc = "gather"
    /\ AllDone
    /\ coord_pc' = "returned"
    /\ UNCHANGED <<cfg_vars, other_vars, single_vars, clock_vars, is_running, counter_vars, session>>

\* _signal_handler: SIGINT or SIGTERM while the stress run is in progress.
SignalStress ==
    /\ coord_pc = "gather"
    /\ is_running
    /\ is_running' = FALSE
    /\ session' = [i \in Sessions |->
                      [session[i] EXCEPT
                          !.recvs_since_stop = IF session[i].pc = "recv" THEN 1 ELSE 0]]
    /\ UNCHANGED <<cfg_vars, other_vars, single_vars, clock_vars, counter_vars, coord_pc>>

\* Whether a session lets the clock pass: it is suspended in a connect, in
\* the wait for the authentication response or in a receive whose timeout
\* has not yet expired, or it has returned.
LetsTimePass(s) ==
    \/ Returned(s)
    \/ s.pc = "connect"
    \/ s.pc = "auth_recv"
    \/ s.pc = "recv" /\ s.waited < RecvTimeout

\* One second passes.
TickStress ==
    /\ ~AllDone
    /\ \A i \in Sessions : LetsTimePass(session[i])
    /\ session' = [i \in Sessions |->
                      IF Returned(session[i]) THEN session[i]
                      ELSE [session[i] EXCEPT
                               !.waited = IF session[i].pc = "recv" THEN @ + 1 ELSE @,
                               !.elapsed = IF session[i].pc = "recv" THEN @ + 1 ELSE @]]
    /\ UNCHANGED <<cfg_vars, other_vars, single_vars, clock_vars, is_running, counter_vars, coord_pc>>

\* monitor_websocket_performance before it is called (lines 102-104).
IdleMonitor ==
    [pc |-> "idle", expired |-> FALSE, message_count |-> 0, latencies |-> <<>>,
     ws_metrics |-> <<>>]

\* DeribitTester.__init__ (deribit_tester.py lines 52-59).
NewTester ==
    [pc |-> 0, results |-> <<>>, total_tests |-> 0, passed_tests |-> 0,
     failed_tests |-> 0]

\* The single-connection coroutine before it is started.
IdleTask ==
    [pc |-> "idle", wait_began |-> 0, start_time |-> 0, connection_start |-> 0,
     count |-> 0, socket_open |-> FALSE, since_stop |-> 0,
     connects_since_stop |-> 0, raised |-> FALSE, peer_closed |-> FALSE]

\* stress_test lines 182-187: every task is created and awaits its connect.
InitStress(n, d) ==
    /\ test_type = "stress"
    /\ has_credentials \in BOOLEAN
    /\ num_connections = n
    /\ duration = d
    /\ now = 0
    /\ is_running = TRUE
    /\ total_messages = 0
    /\ connection_count = 0
    /\ reconnection_count = 0
    /\ messages = <<>>
    /\ session = [i \in 0..(n - 1) |->
                     [pc |-> "connect", waited |-> 0, elapsed |-> 0,
                      connection_messages |-> 0, recvs_since_stop |-> 0,
                      connected |-> FALSE, auth_sent |-> FALSE,
                      subscriptions |-> 0]]
    /\ coord_pc = "gather"
    /\ disconnection_interval = 0
    /\ channels = <<>>
    /\ task = IdleTask
    /\ latencies = <<>>
    /\ tick_data = <<>>
    /\ report = None
    /\ monitor = IdleMonitor
    /\ tester = NewTester

Init ==
    \E n \in 1..MaxConnections, d \in {0, MaxDuration} : InitStress(n, d)

\* What the event loop and the network do in a stress run.
StressProgress ==
    \/ \E i \in Sessions : ConnectOk(i)
    \/ \E i \in Sessions : ConnectFail(i)
    \/ \E i \in Sessions : AuthSendOk(i)
    \/ \E i \in Sessions : AuthSendFail(i)
    \/ \E i \in Sessions : AuthReturned(i)
    \/ \E i \in Sessions : SubscribeOk(i)
    \/ \E i \in Sessions : SubscribeFail(i)
    \/ \E i \in Sessions : RecvClosed(i)
    \/ \E i \in Sessions, frame \in StressFrames : RecvMessage(i, frame)
    \/ \E i \in Sessions, frame \in StressFrames : RecvUndecodable(i, frame)
    \/ \E i \in Sessions, frame \in StressFrames : RecvUnprocessable(i, frame)
    \/ \E i \in Sessions : RecvTimedOut(i)
    \/ \E i \in Sessions : CloseSession(i)
    \/ GatherDone
    \/ TickStress

Next ==
    \/ StressProgress
    \/ SignalStress

\* The stress run: 1..MaxConnections sessions, duration 0 or MaxDuration.
Spec == Init /\ [][Next]_vars

\* A duration longer than one receive timeout: a receive can time out before
\* the duration has passed.
LongDuration == MaxDuration + RecvTimeout

\* A stress run of two sessions: a session and one sibling.
InitSiblings == \E d \in {0, LongDuration} : InitStress(2, d)

\* The stress run of a session and its sibling.
SpecSiblings == InitSiblings /\ [][Next]_vars

\* --connections default=5
DefaultConnections == 5

\* The stress run of five sessions with duration 0, beside a one-session run
\* of one second.
InitZero == InitStress(DefaultConnections, 0) \/ InitStress(1, 1)

\* The event loop runs every ready task, every timed await expires and
\* every network operation ends (in success or in an error), so a stress
\* run never stops while one of its steps is possible.
SpecZero == InitZero /\ [][Next]_vars /\ WF_vars(StressProgress)

\* ------------------------------------------------- tick-by-tick analysis

\* More channel names: one that contains ChanTicker, and an unrelated one.
ChanTickerRaw == <<"t", "r">>
ChanBook == <<"b">>

\* Whether sequence a occurs in sequence b as a contiguous run (Python's
\* `a in b` on strings).
IsSubstring(a, b) ==
    \E k \in 0..(Len(b) - Len(a)) :
        \A j \in 1..Len(a) : b[k + j] = a[j]

\* tick_data = {channel: [] for channel in channels} (line 262)
EmptyTickData(chs) == [ch \in {chs[k] : k \in 1..Len(chs)} |-> <<>>]

\* Lines 302-305: the first subscribed channel, in list order, whose name
\* occurs in the notification's channel name; 0 when there is none.
RECURSIVE FirstMatch(_, _, _)
FirstMatch(chs, name, k) ==
    IF k > Len(chs) THEN 0
    ELSE IF IsSubstring(chs[k], name) THEN k
    ELSE FirstMatch(chs, name, k + 1)

\* Mutant of StoreTick: the loop over the channels has no break, and the
\* record is appended to the list of every matching channel.
StoreTickEveryMatch(td, chs, number, name, delay) ==
    LET info == [tick_number |-> number, channel |-> name, delay_ms |-> delay]
    IN  [ch \in DOMAIN td |->
            IF IsSubstring(ch, name) THEN Append(td[ch], info) ELSE td[ch]]

\* Lines 288-305: the tick record of a notification, appended to the list
\* of the first matching channel.  The fields data_size, price, volume,
\* bid_price and ask_price of the record are not modelled.
StoreTick(td, chs, number, name, delay) ==
    LET k == FirstMatch(chs, name, 1)
        info == [tick_number |-> number, channel |-> name, delay_ms |-> delay]
    IN  IF k = 0 THEN td
        ELSE [td EXCEPT ![chs[k]] = Append(@, info)]

\* delays = [tick['delay_ms'] for tick in ticks if tick['delay_ms'] is not None]
Delays(ticks) ==
    LET with == SelectSeq(ticks, LAMBDA t : t.delay_ms # None)
    IN  [k \in 1..Len(with) |-> with[k].delay_ms[1]]

RECURSIVE SumSeq(_)
\* sum(values)
SumSeq(values) ==
    IF values = <<>> THEN 0 ELSE Head(values) + SumSeq(Tail(values))

\* f"{sum(values) / len(values):.2f}": the average in hundredths, rounded.
AverageCenti(values) ==
    (2 * 100 * SumSeq(values) + Len(values)) \div (2 * Len(values))

\* sorted(values): insertion of the head into the sorted tail.
RECURSIVE Sorted(_)
Sorted(values) ==
    IF values = <<>> THEN <<>>
    ELSE LET rest == Sorted(Tail(values))
             below == SelectSeq(rest, LAMBDA v : v < Head(values))
             above == SelectSeq(rest, LAMBDA v : v >= Head(values))
         IN  below \o <<Head(values)>> \o above

\* sorted(delays)[len(delays)//2] (line 348), indices counted from 0.
MedianDelay(delays) == Sorted(delays)[(Len(delays) \div 2) + 1]

\* Mutant of InRange50To100: the lower boundary is exclusive.
InRange50To100Exclusive(d) == 50 < d /\ d < 100

\* The five tests of the delay distribution (lines 355-359).
InRange0To50(d) == 0 <= d /\ d < 50
InRange50To100(d) == 50 <= d /\ d < 100
InRange100To200(d) == 100 <= d /\ d < 200
InRange200To500(d) == 200 <= d /\ d < 500
InRange500Up(d) == d >= 500

\* delay_ranges (lines 354-360)
DelayRanges(delays) ==
    [r0_50 |-> Len(SelectSeq(delays, InRange0To50)),
     r50_100 |-> Len(SelectSeq(delays, InRange50To100)),
     r100_200 |-> Len(SelectSeq(delays, InRange100To200)),
     r200_500 |-> Len(SelectSeq(delays, InRange200To500)),
     r500_up |-> Len(SelectSeq(delays, InRange500Up))]

\* The keys of tick_data in dict order: the subscribed channels in list
\* order, each once.
RECURSIVE DictOrder(_, _)
DictOrder(chs, seen) ==
    IF chs = <<>> THEN <<>>
    ELSE IF Head(chs) \in seen THEN DictOrder(Tail(chs), seen)
    ELSE <<Head(chs)>> \o DictOrder(Tail(chs), seen \cup {Head(chs)})

\* all_delays (lines 396-398)
RECURSIVE AllDelays(_, _)
AllDelays(td, order) ==
    IF order = <<>> THEN <<>>
    ELSE Delays(td[Head(order)]) \o AllDelays(td, Tail(order))

\* Mutant of Rating: an average of exactly 50 is still EXCELLENT.
RatingExcellentInclusive(all) ==
    IF SumSeq(all) <= 50 * Len(all) THEN "EXCELLENT"
    ELSE IF SumSeq(all) < 100 * Len(all) THEN "GOOD"
    ELSE IF SumSeq(all) < 200 * Len(all) THEN "FAIR"
    ELSE "POOR"

\* Performance rating (lines 406-414); avg_delay < t is sum < t * len.
Rating(all) ==
    IF SumSeq(all) < 50 * Len(all) THEN "EXCELLENT"
    ELSE IF SumSeq(all) < 100 * Len(all) THEN "GOOD"
    ELSE IF SumSeq(all) < 200 * Len(all) THEN "FAIR"
    ELSE "POOR"

\* Whether total_ticks / duration (line 332) and len(ticks) / duration
\* (line 341) raise ZeroDivisionError.
DivisionRaises(dur) == dur = 0

\* _analyze_tick_data(tick_data, duration): what it logs, or that it raised.
\*   raised       it raised instead of returning
\*   no_data      the channels logged as "No data received"
\*   ranges       per channel, Some(delay_ranges) when it logged a distribution
\*   medians      per channel, Some(median delay) when it logged the statistics
\*   overall_avg  Some(overall average delay in hundredths) when logged
\*   rating       Some(performance rating) when logged
AnalyzeTickData(td, chs, dur) ==
    IF DivisionRaises(dur)
    THEN [raised |-> TRUE, no_data |-> {}, ranges |-> [ch \in DOMAIN td |-> None],
          medians |-> [ch \in DOMAIN td |-> None],
          overall_avg |-> None, rating |-> None]
    ELSE LET all == AllDelays(td, DictOrder(chs, {}))
         IN  [raised |-> FALSE,
              no_data |-> {ch \in DOMAIN td : td[ch] = <<>>},
              ranges |-> [ch \in DOMAIN td |->
                             IF td[ch] # <<>> /\ Delays(td[ch]) # <<>>
                             THEN Some(DelayRanges(Delays(td[ch])))
                             ELSE None],
              medians |-> [ch \in DOMAIN td |->
                              IF td[ch] # <<>> /\ Delays(td[ch]) # <<>>
                              THEN Some(MedianDelay(Delays(td[ch])))
                              ELSE None],
              overall_avg |-> IF all # <<>> THEN Some(AverageCenti(all)) ELSE None,
              rating |-> IF all # <<>> THEN Some(Rating(all)) ELSE None]

\* Line 318 and lines 320-321: the collection loop has ended; the analysis
\* runs, and an exception of it ends the test in the outer handler.
Analyze ==
    /\ task.pc = "analyze"
    /\ LET r == AnalyzeTickData(tick_data, channels, duration)
       IN  /\ report' = Some(r)
           /\ task' = [task EXCEPT !.pc = IF r.raised THEN "failed" ELSE "completed",
                                   !.raised = r.raised,
                                   !.peer_closed = FALSE,
                                   !.wait_began = 0, !.start_time = 0,
                                   !.count = 0, !.socket_open = FALSE]
    /\ UNCHANGED <<cfg_vars, other_vars, clock_vars, is_running, counter_vars, stress_vars,
                   latencies, tick_data>>

\* Most tick records in the input of the analysis.
MaxTicks == 4

\* The notifications a collection loop may have stored: delays on the ticker
\* channel, and one kind of tick on the book channel.
AnalyzedDelays == {None, Some(-5), Some(10), Some(50), Some(60), Some(150), Some(600)}

AnalyzedTicks ==
    {[channel |-> ChanTicker, delay |-> d] : d \in AnalyzedDelays}
    \cup {[channel |-> ChanBook, delay |-> Some(60)]}

\* The tick_data the collection loop builds from a sequence of notifications.
RECURSIVE Collected(_, _, _)
Collected(td, chs, input) ==
    IF input = <<>> THEN td
    ELSE LET n == Len(input)
             last == input[n]
         IN  StoreTick(Collected(td, chs, SubSeq(input, 1, n - 1)), chs, n,
                       last.channel, last.delay)

TickInputs == UNION {[1..n -> AnalyzedTicks] : n \in 0..MaxTicks}

\* tick_by_tick_delay_test at line 318: the collection loop has ended.
InitAnalyze ==
    /\ test_type = "tick-analysis"
    /\ has_credentials = FALSE
    /\ num_connections = 0
    /\ duration \in 0..MaxDuration
    /\ disconnection_interval = 0
    /\ channels = <<ChanTicker, ChanBook>>
    /\ now = 0
    /\ is_running = TRUE
    /\ total_messages = 0
    /\ connection_count = 0
    /\ reconnection_count = 0
    /\ messages = <<>>
    /\ session = <<>>
    /\ coord_pc = "idle"
    /\ \E input \in TickInputs :
          /\ tick_data = Collected(EmptyTickData(channels), channels, input)
          /\ task = [IdleTask EXCEPT !.pc = "analyze", !.count = Len(input),
                                     !.socket_open = TRUE]
    /\ latencies = <<>>
    /\ report = None
    /\ monitor = IdleMonitor
    /\ tester = NewTester

NextAnalyze == Analyze

\* _analyze_tick_data applied to what a collection loop can have stored.
SpecAnalyze == InitAnalyze /\ [][NextAnalyze]_vars

\* ------------------------------------------- single-connection run modes

SingleModes == {"latency", "tick-analysis", "reconnection"}

\* (disconnection_interval, total_duration) of the reconnection runs explored:
\* --disconnect-interval 10 --duration 25, and a short run.
ReconnectionConfigs == {<<10, 25>>, <<1, 2>>}

\* The channel lists of the tick analyses explored.
TickChannelLists ==
    {<<ChanTicker, ChanTickerRaw>>, <<ChanTickerRaw, ChanTicker>>,
     <<ChanTicker, ChanBook>>}

\* Ages (ms) of the notifications sent to a latency test.
LatencyAges == {-3, 0, 1, 9999, 10000, 10001}

LatencyFrames ==
    {BadFrame, NonDictFrame, RpcFrame, Notification(ChanTicker, None)}
    \cup {Notification(ChanTicker, Some(ReceiveMs - a)) : a \in LatencyAges}

TickFrames ==
    {BadFrame, NonDictFrame, RpcFrame,
     Notification(ChanTicker, None),
     Notification(ChanTicker, Some(ReceiveMs - 60)),
     Notification(ChanTickerRaw, Some(ReceiveMs - 10)),
     Notification(ChanBook, Some(ReceiveMs - 600))}

\* Mutant of LatencyRetained: a latency of 0 is kept.
LatencyRetainedFromZero(latency) == latency >= 0 /\ latency < LatencyUpperBound

\* if latency > 0 and latency < 10000 (line 222)
LatencyRetained(latency) == latency > 0 /\ latency < LatencyUpperBound

\* Lines 216-223: latencies after a decoded message.
LatenciesAfter(lats, frame) ==
    IF MessageLatency(frame) # None /\ LatencyRetained(MessageLatency(frame)[1])
    THEN Append(lats, MessageLatency(frame)[1])
    ELSE lats

\* Mutant of RunCondition: the loop runs while elapsed <= duration.
RunConditionInclusive(since_start, dur) == since_start <= dur

\* while (time.time() - start_time) < duration (lines 209, 268, 432, 442):
\* the loops of the single-connection run modes do not read is_running.
RunCondition(since_start, dur) == since_start < dur

\* The task begins a timed await.
Awaiting(t, pc) == [t EXCEPT !.pc = pc, !.wait_began = now]

\* The coroutine ends; its locals are dead.
Ended(t, pc) ==
    [t EXCEPT !.pc = pc, !.wait_began = 0, !.start_time = 0,
              !.connection_start = 0, !.count = 0, !.socket_open = FALSE,
              !.peer_closed = FALSE]

\* The head of the receive loop of latency_test (line 209) or of
\* tick_by_tick_delay_test (line 268).
TimedLoopHead(t) ==
    IF RunCondition(now - t.start_time, duration)
    THEN Awaiting(t, "recv")
    ELSE IF test_type = "latency"
         THEN Ended(t, "completed")
         ELSE [t EXCEPT !.pc = "analyze", !.wait_began = 0]

\* The head of the outer loop of reconnection_test (line 432): the next
\* connection attempt, or the end of the test (line 456).
OuterLoopHead(t) ==
    IF RunCondition(now - t.start_time, duration)
    THEN [Awaiting(t, "connect") EXCEPT
             !.socket_open = FALSE, !.peer_closed = FALSE,
             !.connection_start = 0, !.count = 0,
             !.connects_since_stop = IF is_running THEN @ ELSE 1]
    ELSE Ended(t, "completed")

\* Whether the inner loop of reconnection_test (line 442) goes on.
StaysConnected(t) == RunCondition(now - t.connection_start, disconnection_interval)

\* The head of a receive loop, and what it does to reconnection_count
\* (line 450 follows the inner loop of reconnection_test).
LoopHeadSingle(t) ==
    /\ task' = IF test_type # "reconnection" THEN TimedLoopHead(t)
               ELSE IF StaysConnected(t) THEN Awaiting(t, "recv")
               ELSE OuterLoopHead(t)
    /\ reconnection_count' =
           IF test_type = "reconnection" /\ ~StaysConnected(t)
           THEN reconnection_count + 1
           ELSE reconnection_count

\* Mutant of Raised: reconnection_test retries without the pause.
RaisedRetriesAtOnce(t) ==
    IF test_type = "reconnection"
    THEN [OuterLoopHead(t) EXCEPT !.raised = TRUE]
    ELSE [Ended(t, "failed") EXCEPT !.raised = TRUE]

\* An exception reaches the outer handler: lines 241-242 and 320-321 end the
\* test, lines 452-454 pause before the next attempt.
Raised(t) ==
    IF test_type = "reconnection"
    THEN [Awaiting(t, "sleep") EXCEPT
             !.socket_open = FALSE, !.peer_closed = FALSE,
             !.connection_start = 0, !.count = 0,
             !.raised = TRUE]
    ELSE [Ended(t, "failed") EXCEPT !.raised = TRUE]

\* main() dispatches to the run mode (lines 513-518); reconnection_test
\* takes start_time and tests its loop condition.
Start ==
    /\ task.pc = "idle"
    /\ task' = IF test_type = "reconnection"
               THEN OuterLoopHead([task EXCEPT !.start_time = now])
               ELSE Awaiting(task, "connect")
    /\ UNCHANGED <<cfg_vars, other_vars, clock_vars, is_running, counter_vars, stress_vars,
                   latencies, tick_data, report>>

\* websockets.connect succeeded; authenticate runs up to its first await.
TaskConnectOk ==
    /\ task.pc = "connect"
    /\ task' = [task EXCEPT
                   !.pc = IF has_credentials THEN "auth_send" ELSE "subscribe",
                   !.wait_began = 0, !.socket_open = TRUE]
    /\ UNCHANGED <<cfg_vars, other_vars, clock_vars, is_running, counter_vars, stress_vars,
                   latencies, tick_data, report>>

\* websockets.connect raised.
TaskConnectFail ==
    /\ task.pc = "connect"
    /\ task' = Raised(task)
    /\ UNCHANGED <<cfg_vars, other_vars, clock_vars, is_running, counter_vars, stress_vars,
                   latencies, tick_data, report>>

\* authenticate: websocket.send(auth_message) completed (line 75).
TaskAuthSendOk ==
    /\ task.pc = "auth_send"
    /\ task' = Awaiting(task, "auth_recv")
    /\ UNCHANGED <<cfg_vars, other_vars, clock_vars, is_running, counter_vars, stress_vars,
                   latencies, tick_data, report>>

\* authenticate: websocket.send raised (line 75, outside authenticate's try).
TaskAuthSendFail ==
    /\ task.pc = "auth_send"
    /\ task' = Raised(task)
    /\ UNCHANGED <<cfg_vars, other_vars, clock_vars, is_running, counter_vars, stress_vars,
                   latencies, tick_data, report>>

\* authenticate: a response or a receive error before the timeout (lines
\* 78-90); every case returns and the caller drops the result.
TaskAuthReturned ==
    /\ task.pc = "auth_recv"
    /\ now - task.wait_began < AuthTimeout
    /\ task' = [task EXCEPT !.pc = "subscribe", !.wait_began = 0]
    /\ UNCHANGED <<cfg_vars, other_vars, clock_vars, is_running, counter_vars, stress_vars,
                   latencies, tick_data, report>>

\* Mutant of TaskAuthTimedOut: the timeout is not caught in authenticate.
TaskAuthTimedOutFatal ==
    /\ task.pc = "auth_recv"
    /\ now - task.wait_began >= AuthTimeout
    /\ task' = Raised(task)
    /\ UNCHANGED <<cfg_vars, other_vars, clock_vars, is_running, counter_vars, stress_vars,
                   latencies, tick_data, report>>

\* authenticate: asyncio.wait_for timed out after 10 s (lines 78, 88-90).
TaskAuthTimedOut ==
    /\ task.pc = "auth_recv"
    /\ now - task.wait_began >= AuthTimeout
    /\ task' = [task EXCEPT !.pc = "subscribe", !.wait_began = 0]
    /\ UNCHANGED <<cfg_vars, other_vars, clock_vars, is_running, counter_vars, stress_vars,
                   latencies, tick_data, report>>

\* subscribe_to_channels sent; the locals of the receive loop are set
\* (lines 206-207, 262-264, 439-440) and the loop condition is tested.
TaskSubscribeOk ==
    /\ task.pc = "subscribe"
    /\ LoopHeadSingle([task EXCEPT
                          !.start_time = IF test_type = "reconnection" THEN @ ELSE now,
                          !.connection_start = IF test_type = "reconnection" THEN now ELSE @,
                          !.count = 0])
    /\ latencies' = <<>>
    /\ tick_data' = IF test_type = "tick-analysis" THEN EmptyTickData(channels)
                    ELSE tick_data
    /\ UNCHANGED <<cfg_vars, other_vars, clock_vars, is_running, total_messages,
                   connection_count, messages, stress_vars, report>>

\* subscribe_to_channels: websocket.send raised (line 103).
TaskSubscribeFail ==
    /\ task.pc = "subscribe"
    /\ task' = Raised(task)
    /\ UNCHANGED <<cfg_vars, other_vars, clock_vars, is_running, counter_vars, stress_vars,
                   latencies, tick_data, report>>

\* latency_test lines 211-223: a frame arrives and is decoded; a latency
\* that passes the filter is kept.
LatencyRecv(frame) ==
    /\ test_type = "latency"
    /\ task.pc = "recv" /\ ~task.peer_closed
    /\ task.count < MaxMessages
    /\ ~DecodeFails(frame) /\ ~ProcessingFails(frame)
    /\ latencies' = LatenciesAfter(latencies, frame)
    /\ LoopHeadSingle([task EXCEPT !.count = @ + 1])
    /\ UNCHANGED <<cfg_vars, other_vars, clock_vars, is_running, total_messages,
                   connection_count, messages, stress_vars, tick_data, report>>

\* latency_test lines 214-217: json.loads or the membership tests raise;
\* the loop catches only the timeout, so the test ends at lines 241-242.
LatencyRecvFails(frame) ==
    /\ test_type = "latency"
    /\ task.pc = "recv" /\ ~task.peer_closed
    /\ DecodeFails(frame) \/ ProcessingFails(frame)
    /\ task' = Raised(task)
    /\ UNCHANGED <<cfg_vars, other_vars, clock_vars, is_running, counter_vars, stress_vars,
                   latencies, tick_data, report>>

\* tick_by_tick_delay_test lines 270-305: a frame arrives, is decoded and
\* counted, and a notification is stored under the first matching channel.
TickRecv(frame) ==
    /\ test_type = "tick-analysis"
    /\ task.pc = "recv" /\ ~task.peer_closed
    /\ task.count < MaxMessages
    /\ ~DecodeFails(frame) /\ ~ProcessingFails(frame)
    /\ tick_data' = IF frame.kind = "notification"
                    THEN StoreTick(tick_data, channels, task.count + 1,
                                   frame.channel, MessageLatency(frame))
                    ELSE tick_data
    /\ LoopHeadSingle([task EXCEPT !.count = @ + 1])
    /\ UNCHANGED <<cfg_vars, other_vars, clock_vars, is_running, total_messages,
                   connection_count, messages, stress_vars, latencies, report>>

\* tick_by_tick_delay_test lines 273-277, 313-315: json.loads raises (the
\* frame is not counted) or the membership test raises (it is counted);
\* the loop goes on.
TickRecvFails(frame) ==
    /\ test_type = "tick-analysis"
    /\ task.pc = "recv" /\ ~task.peer_closed
    /\ task.count < MaxMessages
    /\ DecodeFails(frame) \/ ProcessingFails(frame)
    /\ LoopHeadSingle([task EXCEPT
                          !.count = IF DecodeFails(frame) THEN @ ELSE @ + 1])
    /\ UNCHANGED <<cfg_vars, other_vars, clock_vars, is_running, total_messages,
                   connection_count, messages, stress_vars, latencies,
                   tick_data, report>>

\* reconnection_test lines 444-445: a frame arrives and is counted.
ReconnectionRecv ==
    /\ test_type = "reconnection"
    /\ task.pc = "recv" /\ ~task.peer_closed
    /\ task.count < MaxMessages
    /\ LoopHeadSingle([task EXCEPT !.count = @ + 1])
    /\ UNCHANGED <<cfg_vars, other_vars, clock_vars, is_running, total_messages,
                   connection_count, messages, stress_vars, latencies,
                   tick_data, report>>

\* except asyncio.TimeoutError: continue (lines 225-226, 311-312, 446-447)
TaskRecvTimedOut ==
    /\ task.pc = "recv" /\ ~task.peer_closed
    /\ now - task.wait_began >= RecvTimeout
    /\ LoopHeadSingle(task)
    /\ UNCHANGED <<cfg_vars, other_vars, clock_vars, is_running, total_messages,
                   connection_count, messages, stress_vars, latencies,
                   tick_data, report>>

\* websocket.recv raised ConnectionClosed: tick_by_tick_delay_test goes on
\* (lines 313-315), latency_test and reconnection_test leave through the
\* outer handler.
TaskRecvClosed ==
    /\ task.pc = "recv"
    /\ IF test_type = "tick-analysis"
       THEN LoopHeadSingle([task EXCEPT !.peer_closed = TRUE])
       ELSE task' = Raised(task) /\ UNCHANGED reconnection_count
    /\ UNCHANGED <<cfg_vars, other_vars, clock_vars, is_running, total_messages,
                   connection_count, messages, stress_vars, latencies,
                   tick_data, report>>

\* asyncio.sleep(1) returned (line 454); the outer loop tests its condition.
SleepDone ==
    /\ task.pc = "sleep"
    /\ now - task.wait_began >= RetryPause
    /\ task' = OuterLoopHead(task)
    /\ UNCHANGED <<cfg_vars, other_vars, clock_vars, is_running, counter_vars, stress_vars,
                   latencies, tick_data, report>>

\* The coroutine of the run mode has ended.
TaskEnded == task.pc \in {"completed", "failed"}

\* _signal_handler: SIGINT or SIGTERM while a single-connection run mode is
\* in progress.
SignalSingle ==
    /\ task.pc # "idle" /\ ~TaskEnded
    /\ is_running
    /\ is_running' = FALSE
    /\ UNCHANGED <<cfg_vars, other_vars, clock_vars, counter_vars, stress_vars, single_vars>>

\* The timeout of the await the task is suspended at; 0 when it is not
\* suspended at a timed await.
AwaitLimit(t) ==
    IF t.pc = "connect" THEN MaxConnectDelay
    ELSE IF t.pc = "auth_recv" THEN AuthTimeout
    ELSE IF t.pc = "recv" THEN RecvTimeout
    ELSE IF t.pc = "sleep" THEN RetryPause
    ELSE 0

\* One second passes while the task is suspended at a timed await.
TickSingle ==
    /\ now - task.wait_began < AwaitLimit(task)
    /\ now' = now + 1
    /\ task' = [task EXCEPT
                   !.since_stop = IF is_running \/ @ > RecvTimeout THEN @ ELSE @ + 1]
    /\ UNCHANGED <<cfg_vars, other_vars, is_running, counter_vars, stress_vars, latencies,
                   tick_data, report>>

\* A fresh tester (lines 35-51) and the arguments of a single-connection run.
InitSingle ==
    /\ test_type \in SingleModes
    /\ has_credentials \in BOOLEAN
    /\ num_connections = 0
    /\ \E cfg \in ReconnectionConfigs, d \in 0..MaxDuration :
          /\ duration = IF test_type = "reconnection" THEN cfg[2] ELSE d
          /\ disconnection_interval = IF test_type = "reconnection" THEN cfg[1] ELSE 0
    /\ \E chs \in TickChannelLists :
          channels = IF test_type = "tick-analysis" THEN chs ELSE <<>>
    /\ now = 0
    /\ is_running = TRUE
    /\ total_messages = 0
    /\ connection_count = 0
    /\ reconnection_count = 0
    /\ messages = <<>>
    /\ session = <<>>
    /\ coord_pc = "idle"
    /\ task = IdleTask
    /\ latencies = <<>>
    /\ tick_data = <<>>
    /\ report = None
    /\ monitor = IdleMonitor
    /\ tester = NewTester

NextSingle ==
    \/ Start
    \/ TaskConnectOk
    \/ TaskConnectFail
    \/ TaskAuthSendOk
    \/ TaskAuthSendFail
    \/ TaskAuthReturned
    \/ TaskAuthTimedOut
    \/ TaskSubscribeOk
    \/ TaskSubscribeFail
    \/ \E frame \in LatencyFrames : LatencyRecv(frame)
    \/ \E frame \in LatencyFrames : LatencyRecvFails(frame)
    \/ \E frame \in TickFrames : TickRecv(frame)
    \/ \E frame \in TickFrames : TickRecvFails(frame)
    \/ ReconnectionRecv
    \/ TaskRecvTimedOut
    \/ TaskRecvClosed
    \/ SleepDone
    \/ Analyze
    \/ SignalSingle
    \/ TickSingle

\* The latency test, the tick analysis and the reconnection test.
SpecSingle == InitSingle /\ [][NextSingle]_vars

\* ------------------------------------------------ connectivity test suite
\* (src/deribit_tester.py, DeribitTester)

\* RATE_LIMIT_PER_SECOND default '20'
DefaultRateLimit == 20

\* The probes of run_all_tests in the order they run (lines 677-683), by
\* the test_name of the result each logs.
ProbeNames ==
    <<"Basic HTTP Connectivity", "Server Time Sync", "API Authentication",
      "Get Instruments (BTC)", "Get Ticker (BTC-PERPETUAL)",
      "Get Order Book (BTC-PERPETUAL)", "WebSocket Connection & Subscription",
      "Rate Limit Test", "Invalid Endpoint Error Handling",
      "Invalid Instrument Error Handling", "Server Health Check">>

NumProbes == Len(ProbeNames)

\* The probes that send one HTTP request and judge its response.
HttpProbes == {1, 2, 3, 4, 5, 6, 9, 10, 11}
AuthProbe == 3
WebsocketProbe == 7
RateLimitProbe == 8

\* What a request returns: a status code and a body that holds what the
\* probe looks for ("expected"), lacks it ("unexpected") or is no JSON
\* ("not_json"); NoResponse when session.get / session.post raises.
Responses ==
    [status : {200, 404, 500}, body : {"expected", "unexpected", "not_json"}]
NoResponse == [status |-> 0, body |-> "none"]

\* The success field of the TestResult an HTTP probe builds; an exception
\* of the request or of response.json() gives the result of the handler.
HttpSuccess(k, r) ==
    IF r = NoResponse THEN FALSE
    ELSE IF k = 1 THEN r.status = 200 /\ r.body # "not_json"
    ELSE IF k \in {2, 3, 4, 5, 6} THEN r.status = 200 /\ r.body = "expected"
    ELSE IF k = 9 THEN r.status = 404
    ELSE IF k = 10 THEN (IF r.status = 200 THEN r.body = "expected" ELSE TRUE)
    ELSE r.status = 200

\* What test_websocket_connection observes (lines 402-435).
WebsocketOutcomes == {"messages", "no_messages", "not_connected", "raises"}

\* successful_requests >= self.rate_limit * 0.8 (line 477)
RateLimitSuccess(successful_requests, limit) ==
    10 * successful_requests >= 8 * limit

\* Mutant of LogResult: a failed result is not counted in failed_tests.
LogResultFailureUncounted(t, result) ==
    [t EXCEPT !.results = Append(@, result),
              !.total_tests = @ + 1,
              !.passed_tests = IF result.success THEN @ + 1 ELSE @]

\* log_result (lines 61-75)
LogResult(t, result) ==
    [t EXCEPT !.results = Append(@, result),
              !.total_tests = @ + 1,
              !.passed_tests = IF result.success THEN @ + 1 ELSE @,
              !.failed_tests = IF result.success THEN @ ELSE @ + 1]

\* The probe logs its result and returns; run_all_tests goes on to the next.
Logged(name, success) ==
    tester' = [LogResult(tester, [test_name |-> name, success |-> success])
                  EXCEPT !.pc = @ + 1]

\* run_all_tests is called (lines 670-676).
RunAllTests ==
    /\ tester.pc = 0
    /\ tester' = [tester EXCEPT !.pc = 1]
    /\ UNCHANGED <<cfg_vars, clock_vars, is_running, counter_vars, stress_vars,
                   single_vars, monitor>>

\* A probe of one HTTP request: the response is judged, or the exception is
\* caught, and one result is logged.
HttpProbe(r) ==
    /\ tester.pc \in HttpProbes
    /\ tester.pc = AuthProbe => has_credentials
    /\ Logged(ProbeNames[tester.pc], HttpSuccess(tester.pc, r))
    /\ UNCHANGED <<cfg_vars, clock_vars, is_running, counter_vars, stress_vars,
                   single_vars, monitor>>

\* test_authentication without credentials (lines 163-171).
AuthSetupMissing ==
    /\ tester.pc = AuthProbe
    /\ ~has_credentials
    /\ Logged("Authentication Setup", FALSE)
    /\ UNCHANGED <<cfg_vars, clock_vars, is_running, counter_vars, stress_vars,
                   single_vars, monitor>>

\* test_websocket_connection (lines 359-437).
WebsocketProbed(outcome) ==
    /\ tester.pc = WebsocketProbe
    /\ Logged(ProbeNames[tester.pc], outcome = "messages")
    /\ UNCHANGED <<cfg_vars, clock_vars, is_running, counter_vars, stress_vars,
                   single_vars, monitor>>

\* test_rate_limits (lines 439-489): of rate_limit requests,
\* successful_requests returned status 200; the others returned another
\* status or raised.
RateLimitProbed(successful_requests) ==
    /\ tester.pc = RateLimitProbe
    /\ Logged(ProbeNames[tester.pc],
              RateLimitSuccess(successful_requests, DefaultRateLimit))
    /\ UNCHANGED <<cfg_vars, clock_vars, is_running, counter_vars, stress_vars,
                   single_vars, monitor>>

\* A fresh DeribitTester (lines 43-59), with or without credentials.
InitSuite ==
    /\ test_type = "suite"
    /\ has_credentials \in BOOLEAN
    /\ num_connections = 0
    /\ duration = 0
    /\ disconnection_interval = 0
    /\ channels = <<>>
    /\ now = 0
    /\ is_running = TRUE
    /\ total_messages = 0
    /\ connection_count = 0
    /\ reconnection_count = 0
    /\ messages = <<>>
    /\ session = <<>>
    /\ coord_pc = "idle"
    /\ task = IdleTask
    /\ latencies = <<>>
    /\ tick_data = <<>>
    /\ report = None
    /\ monitor = IdleMonitor
    /\ tester = NewTester

NextSuite ==
    \/ RunAllTests
    \/ \E r \in Responses \cup {NoResponse} : HttpProbe(r)
    \/ AuthSetupMissing
    \/ \E outcome \in WebsocketOutcomes : WebsocketProbed(outcome)
    \/ \E n \in 0..DefaultRateLimit : RateLimitProbed(n)

\* run_all_tests of the connectivity test suite.
SpecSuite == InitSuite /\ [][NextSuite]_vars

\* ------------------------------------------------------------------ claims

\* ------------------------------------- performance monitor: WebSocket loop
\* (src/performance_monitor.py, monitor_websocket_performance)

\* Most messages counted in one monitoring run.
MaxMetrics == 3

\* Ages (ms) of the ticker notifications sent to the monitor.
MonitorAges == {40, 70}

MonitorFrames ==
    {BadFrame, NonDictFrame, RpcFrame, Notification(ChanTicker, None)}
    \cup {Notification(ChanTicker, Some(ReceiveMs - a)) : a \in MonitorAges}

\* latencies[-1] if latencies else None (line 139), read after the latency
\* of the message, if it has one, was appended (line 134).
MetricLatency(lats, frame) ==
    LET after == IF MessageLatency(frame) # None
                 THEN Append(lats, MessageLatency(frame)[1])
                 ELSE lats
    IN  IF after # <<>> THEN Some(after[Len(after)]) ELSE None

\* The head of the while loop (line 120).
MonitorLoopHead(m) ==
    IF ~m.expired THEN [m EXCEPT !.pc = "recv"] ELSE [m EXCEPT !.pc = "done"]

\* The call of monitor_websocket_performance (lines 100-107).
MonitorStart ==
    /\ monitor.pc = "idle"
    /\ monitor' = [monitor EXCEPT !.pc = "connect"]
    /\ UNCHANGED <<cfg_vars, clock_vars, is_running, counter_vars, stress_vars,
                   single_vars, tester>>

\* websockets.connect succeeded (line 107).
MonitorConnectOk ==
    /\ monitor.pc = "connect"
    /\ monitor' = [monitor EXCEPT !.pc = "subscribe"]
    /\ UNCHANGED <<cfg_vars, clock_vars, is_running, counter_vars, stress_vars,
                   single_vars, tester>>

\* websockets.connect raised: the outer handler (lines 149-150).
MonitorConnectFail ==
    /\ monitor.pc = "connect"
    /\ monitor' = [monitor EXCEPT !.pc = "done"]
    /\ UNCHANGED <<cfg_vars, clock_vars, is_running, counter_vars, stress_vars,
                   single_vars, tester>>

\* The subscription was sent (line 118); the loop condition is tested.
MonitorSubscribeOk ==
    /\ monitor.pc = "subscribe"
    /\ monitor' = MonitorLoopHead(monitor)
    /\ UNCHANGED <<cfg_vars, clock_vars, is_running, counter_vars, stress_vars,
                   single_vars, tester>>

\* websocket.send raised (line 118): the outer handler (lines 149-150).
MonitorSubscribeFail ==
    /\ monitor.pc = "subscribe"
    /\ monitor' = [monitor EXCEPT !.pc = "done"]
    /\ UNCHANGED <<cfg_vars, clock_vars, is_running, counter_vars, stress_vars,
                   single_vars, tester>>

\* Lines 122-141: a frame arrives, is decoded and counted; its latency, if
\* it has a timestamp, is appended to latencies, and an entry is appended
\* to ws_metrics.
MonitorRecv(frame) ==
    /\ monitor.pc = "recv"
    /\ monitor.message_count < MaxMetrics
    /\ ~DecodeFails(frame) /\ ~ProcessingFails(frame)
    /\ monitor' =
           MonitorLoopHead(
               [monitor EXCEPT
                   !.message_count = @ + 1,
                   !.latencies = IF MessageLatency(frame) # None
                                 THEN Append(@, MessageLatency(frame)[1])
                                 ELSE @,
                   !.ws_metrics =
                       Append(@, [message_count |-> monitor.message_count + 1,
                                  latency |-> MetricLatency(monitor.latencies,
                                                            frame)])])
    /\ UNCHANGED <<cfg_vars, clock_vars, is_running, counter_vars, stress_vars,
                   single_vars, tester>>

\* Lines 125-129, 145-147: json.loads raises (the frame is not counted) or
\* the membership test raises (it is counted); the loop is left.
MonitorRecvFails(frame) ==
    /\ monitor.pc = "recv"
    /\ monitor.message_count < MaxMetrics
    /\ DecodeFails(frame) \/ ProcessingFails(frame)
    /\ monitor' = [monitor EXCEPT
                      !.pc = "done",
                      !.message_count = IF DecodeFails(frame) THEN @ ELSE @ + 1]
    /\ UNCHANGED <<cfg_vars, clock_vars, is_running, counter_vars, stress_vars,
                   single_vars, tester>>

\* except asyncio.TimeoutError: continue (lines 143-144)
MonitorRecvTimedOut ==
    /\ monitor.pc = "recv"
    /\ monitor' = MonitorLoopHead(monitor)
    /\ UNCHANGED <<cfg_vars, clock_vars, is_running, counter_vars, stress_vars,
                   single_vars, tester>>

\* websocket.recv raised ConnectionClosed: except Exception, break (lines
\* 145-147).
MonitorRecvClosed ==
    /\ monitor.pc = "recv"
    /\ monitor' = [monitor EXCEPT !.pc = "done"]
    /\ UNCHANGED <<cfg_vars, clock_vars, is_running, counter_vars, stress_vars,
                   single_vars, tester>>

\* The clock reaches start_time + self.duration.
MonitorDeadline ==
    /\ monitor.pc \notin {"idle", "done"}
    /\ ~monitor.expired
    /\ monitor' = [monitor EXCEPT !.expired = TRUE]
    /\ UNCHANGED <<cfg_vars, clock_vars, is_running, counter_vars, stress_vars,
                   single_vars, tester>>

\* A fresh PerformanceMonitor (lines 33-38); nothing else runs.
InitMonitor ==
    /\ test_type = "monitor"
    /\ has_credentials = FALSE
    /\ num_connections = 0
    /\ duration = 0
    /\ disconnection_interval = 0
    /\ channels = <<>>
    /\ now = 0
    /\ is_running = TRUE
    /\ total_messages = 0
    /\ connection_count = 0
    /\ reconnection_count = 0
    /\ messages = <<>>
    /\ session = <<>>
    /\ coord_pc = "idle"
    /\ task = IdleTask
    /\ latencies = <<>>
    /\ tick_data = <<>>
    /\ report = None
    /\ monitor = IdleMonitor
    /\ tester = NewTester

NextMonitor ==
    \/ MonitorStart
    \/ MonitorConnectOk
    \/ MonitorConnectFail
    \/ MonitorSubscribeOk
    \/ MonitorSubscribeFail
    \/ \E frame \in MonitorFrames : MonitorRecv(frame)
    \/ \E frame \in MonitorFrames : MonitorRecvFails(frame)
    \/ MonitorRecvTimedOut
    \/ MonitorRecvClosed
    \/ MonitorDeadline

\* The WebSocket loop of the performance monitor.
SpecMonitor == InitMonitor /\ [][NextMonitor]_vars

\* The per-session message counts (connection_messages).
SessionCounts == [i \in Sessions |-> session[i].connection_messages]

\* C1 (as claimed): a decode or processing error on one message is skipped
\* and the session's loop keeps receiving: whenever a frame fails to decode
\* or to be processed while the loop condition still holds, the session
\* starts its next receive.
C1_ErrorIsSkipped ==
    [][\A i \in Sessions :
          (/\ \E frame \in StressFrames :
                  RecvUndecodable(i, frame) \/ RecvUnprocessable(i, frame)
           /\ LoopCondition(is_running, session[i].elapsed, duration))
          => session'[i].pc = "recv"]_vars

\* A latency_test step that receives a ticker notification of age d (ms).
ReceivesAge(d) == LatencyRecv(Notification(ChanTicker, Some(ReceiveMs - d)))

\* C2 (as claimed): the latency filter retains a delay d if and only if
\* 0 < d <= 10000 ms (d = 10000 is accepted), and nothing outside that range
\* is among the latency samples.
C2_RetainedUpToBoundInclusive ==
    /\ [][\A d \in LatencyAges :
             ReceivesAge(d) =>
                 ((latencies' = Append(latencies, d)) <=> (0 < d /\ d <= 10000))]_vars
    /\ [](\A k \in 1..Len(latencies) : 0 < latencies[k] /\ latencies[k] <= 10000)

\* C2 (amended): the latency filter retains a delay d if and only if
\* 0 < d < 10000 ms: d = 0, d = 10000 and d = 10001 are rejected, d = 1 and
\* d = 9999 are accepted, and nothing outside that range is ever among the
\* latency samples collected by latency_test.
C2_RetainedBelowBound ==
    /\ [][\A d \in LatencyAges :
             ReceivesAge(d) =>
                 ((latencies' = Append(latencies, d)) <=> (0 < d /\ d < 10000))]_vars
    /\ [](\A k \in 1..Len(latencies) : 0 < latencies[k] /\ latencies[k] < 10000)

\* C2 witness: a latency test has received two frames and kept the delay
\* 9999 of one of them only.
C2_Witness ==
    /\ test_type = "latency"
    /\ task.pc = "recv"
    /\ task.count = 2
    /\ latencies = <<9999>>

\* C3: once every session of a stress run has finished, total_messages is
\* the exact sum of the sessions' connection_messages, whatever the
\* interleaving and the order of completion.
C3_TotalIsSumOfSessions ==
    AllDone => total_messages = SumOver(SessionCounts, Sessions)

\* C3 witness: a finished run of two sessions that each counted a message.
C3_Witness ==
    /\ AllDone
    /\ num_connections = 2
    /\ \A i \in Sessions : session[i].connection_messages >= 1

\* A step at which session i meets an error: a failed connect, a failed
\* send, a closed connection or a decode or processing error.
SessionErrs(i) ==
    \/ ConnectFail(i)
    \/ AuthSendFail(i)
    \/ SubscribeFail(i)
    \/ RecvClosed(i)
    \/ \E frame \in StressFrames :
          RecvUndecodable(i, frame) \/ RecvUnprocessable(i, frame)

\* C11: an error in one stress session leaves every sibling session, the
\* stop flag and the coordinator as they are (nothing is raised to the
\* coordinator, no sibling is stopped, cancelled or shortened), and the
\* coordinator returns only when every session has finished.
C11_FailuresAreIsolated ==
    /\ [][\A i \in Sessions :
             (session'[i].pc \in {"failed", "close"} /\ SessionErrs(i)) =>
                 /\ \A j \in Sessions \ {i} : session'[j] = session[j]
                 /\ is_running' = is_running
                 /\ coord_pc' = coord_pc]_vars
    /\ [](coord_pc = "returned" => AllDone)

\* C11 witness: one session has failed and a sibling has gone on to count a
\* message and to complete although the run was never stopped.
C11_Witness ==
    /\ is_running
    /\ \E i, j \in Sessions :
          /\ session[i].pc = "failed"
          /\ session[j].pc = "completed"
          /\ session[j].connection_messages >= 1

\* A step at which the run of session i ends in a transport failure: a
\* failed connect, a failed send, or a closed connection in the receive loop.
TransportFailure(i) ==
    \/ ConnectFail(i)
    \/ AuthSendFail(i)
    \/ SubscribeFail(i)
    \/ RecvClosed(i)

\* C12 (as claimed): reconnection_count counts the sessions whose run ended
\* in a transport failure: every such end, a closed connection during the
\* receive loop included, adds one to reconnection_count.
C12_EveryTransportFailureCounted ==
    [][\A i \in Sessions :
          TransportFailure(i) => reconnection_count' = reconnection_count + 1]_vars

\* Session i takes a step out of a receive whose timeout has expired, and
\* the step is neither the arrival of a decodable frame nor a break out of
\* a loop whose condition still holds.
TimeoutStep(i) ==
    /\ session[i].pc = "recv"
    /\ session[i].waited >= RecvTimeout
    /\ session'[i] # session[i]
    /\ is_running' = is_running
    /\ ~(\E frame \in StressFrames :
            RecvMessage(i, frame) \/ RecvUnprocessable(i, frame))
    /\ ~(/\ is_running /\ session[i].elapsed < duration
         /\ session'[i].pc = "close")

\* C21: a receive timeout in the session loop changes nothing: the step
\* leaves connection_messages, total_messages, messages, connection_count
\* and reconnection_count as they are, and the session is back at the loop
\* condition: it receives again while the run is on and its duration has
\* not passed, and leaves the loop otherwise.
C21_TimeoutChangesNothing ==
    [][\A i \in Sessions :
          TimeoutStep(i) =>
              /\ total_messages' = total_messages
              /\ messages' = messages
              /\ connection_count' = connection_count
              /\ reconnection_count' = reconnection_count
              /\ session'[i].connection_messages = session[i].connection_messages
              /\ session'[i].pc = IF is_running /\ session[i].elapsed < duration
                                  THEN "recv" ELSE "close"]_vars

\* C21 witness: a session is in a new receive after a receive that timed out
\* (no message was counted, one second of its duration has passed), and
\* nothing was counted or stored.
C21_Witness ==
    \E i \in Sessions :
        /\ session[i].pc = "recv"
        /\ session[i].waited = 0
        /\ session[i].elapsed >= RecvTimeout
        /\ session[i].connection_messages = 0
        /\ total_messages = 0
        /\ messages = <<>>
        /\ reconnection_count = 0

\* C29 (as claimed): in a stress run, wherever control can pass between
\* sessions (every state: a session runs from one await to the next in one
\* step), total_messages is the number of stored messages, len(messages):
\* every decoded message is counted and stored exactly once.
C29_TotalIsStoredCount ==
    total_messages = Len(messages)

\* Whether a delay lies strictly between 0 and the upper bound.
PlausibleDelay(d) == 0 < d /\ d < LatencyUpperBound

\* C22 (as claimed): every latency retained by a stress session, as the
\* latency of a stored WebSocketMessage, and every delay_ms retained by the
\* tick collection is above 0 and below the upper bound of 10000 ms; a
\* negative delay or one at or above the bound is never stored.
C22_RetainedDelaysPlausible ==
    /\ \A k \in 1..Len(messages) :
          messages[k].latency # None => PlausibleDelay(messages[k].latency[1])
    /\ \A ch \in DOMAIN tick_data :
          \A k \in 1..Len(tick_data[ch]) :
              tick_data[ch][k].delay_ms # None =>
                  PlausibleDelay(tick_data[ch][k].delay_ms[1])

\* The reconnection run of the claim: --disconnect-interval 10 --duration 25.
ExampleReconnection ==
    /\ test_type = "reconnection"
    /\ disconnection_interval = 10
    /\ duration = 25

\* C4 (as claimed): with total_duration = 25 and disconnect_interval = 10
\* and no failure, reconnection_test ends when the total elapsed time reaches
\* total_duration (the third interval is cut off; the receive in flight may
\* add one receive timeout), with reconnection_count >= 2.
C4_LastIntervalCutOff ==
    (ExampleReconnection /\ task.pc = "completed" /\ ~task.raised)
        => /\ now <= duration + RecvTimeout
           /\ reconnection_count >= 2

\* C5 (as claimed): a run in which no exception reaches the outer handler
\* completes within its configured duration plus one receive timeout,
\* measured from the start of the run.
C5_CompletesWithinGrace ==
    (TaskEnded /\ ~task.raised) => now <= duration + RecvTimeout

\* C6: once is_running is False, a stress session that is in its receive
\* loop is in the receive that was in flight when the signal came (it begins
\* no further one), that receive ends within the receive timeout, and the
\* session then leaves through the end of its `async with` block: it never
\* ends in the failure handler.
C6_StopEndsStressLoops ==
    \A i \in Sessions :
        /\ session[i].recvs_since_stop <= 1
        /\ (~is_running /\ session[i].pc = "recv")
               => /\ session[i].recvs_since_stop = 1
                  /\ session[i].waited <= RecvTimeout
        /\ session[i].recvs_since_stop >= 1 => session[i].pc # "failed"

\* C6 witness: the signal came while a session was receiving, and that
\* session has completed with messages counted.
C6_Witness ==
    /\ ~is_running
    /\ \E i \in Sessions :
          /\ session[i].recvs_since_stop = 1
          /\ session[i].pc = "completed"
          /\ session[i].connection_messages >= 1

\* C7 (as claimed): after is_running becomes False, a single-connection run
\* mode is in its receive loop for at most one receive timeout more and
\* begins no further connection attempt.
C7_StopEndsSingleLoops ==
    ~is_running =>
        /\ task.pc = "recv" => task.since_stop <= RecvTimeout
        /\ task.connects_since_stop = 0

\* A reconnection_test step that leaves the connected receive loop.
LeavesReceiveLoop ==
    /\ test_type = "reconnection"
    /\ task.pc = "recv"
    /\ task'.pc # "recv"

\* C13 (as claimed): in reconnection_test every exit of the connected
\* receive loop, by the interval elapsing or by an error, adds exactly one
\* to reconnection_count.
C13_EveryLoopExitCounted ==
    [][LeavesReceiveLoop => reconnection_count' = reconnection_count + 1]_vars

C15_NoReceiveAfterClose ==
    task.peer_closed => task.pc # "recv"

\* C16 (as claimed): the aggregate counters are written only after all
\* sessions have completed: while any session is still running, none of
\* them has been changed.
C16_CountersWrittenAfterCompletion ==
    ~AllDone => /\ total_messages = 0
                /\ connection_count = 0
                /\ reconnection_count = 0

\* C17: a session authenticates only with credentials, and then before it
\* subscribes; it sends one subscription request, after connecting, and no
\* second one; it receives (and counts) only after the subscription was sent.
C17_LifecycleOrder ==
    \A i \in Sessions :
        /\ ~has_credentials =>
               /\ ~session[i].auth_sent
               /\ session[i].pc \notin {"auth_send", "auth_recv"}
        /\ session[i].auth_sent => session[i].connected
        /\ session[i].subscriptions <= 1
        /\ session[i].subscriptions = 1 =>
               /\ session[i].connected
               /\ session[i].auth_sent = has_credentials
        /\ session[i].pc \in {"auth_send", "auth_recv", "subscribe"} =>
               /\ session[i].connected
               /\ session[i].subscriptions = 0
        /\ session[i].pc \in {"recv", "close", "completed"} =>
               session[i].subscriptions = 1
        /\ session[i].connection_messages > 0 => session[i].subscriptions = 1

\* C17 witness: a session with credentials has authenticated, subscribed
\* once, counted a message and completed.
C17_Witness ==
    /\ has_credentials
    /\ \E i \in Sessions :
          /\ session[i].pc = "completed"
          /\ session[i].auth_sent
          /\ session[i].subscriptions = 1
          /\ session[i].connection_messages >= 1

\* C18: connection_count is the number of sessions that reached the
\* connected state and reconnection_count the number of sessions that
\* failed, so each session adds at most 1 to each and both stay within
\* 0..num_connections, at every moment and after the run.
C18_CountersWithinSessions ==
    /\ connection_count = Cardinality({i \in Sessions : session[i].connected})
    /\ reconnection_count = Cardinality({i \in Sessions : session[i].pc = "failed"})
    /\ 0 <= connection_count /\ connection_count <= num_connections
    /\ 0 <= reconnection_count /\ reconnection_count <= num_connections

\* C18 witness: a finished run of two sessions of which one never connected
\* and the other connected and failed afterwards.
C18_Witness ==
    /\ AllDone
    /\ num_connections = 2
    /\ connection_count = 1
    /\ reconnection_count = 2

\* C19: in reconnection_test a failed connection attempt is followed by a
\* pause of exactly 1 second before the loop condition is tested again, the
\* same after every failure; an interval that expires is followed by the
\* next connection attempt (or the end of the test) in the same instant.
C19_FixedPauseAfterFailure ==
    /\ [](task.pc = "sleep" => now - task.wait_began <= RetryPause)
    /\ [][(test_type = "reconnection" /\ TaskConnectFail)
              => task'.pc = "sleep" /\ task'.wait_began = now]_vars
    /\ [][(task.pc = "sleep" /\ task'.pc # "sleep")
              => /\ now - task.wait_began = RetryPause
                 /\ task'.pc \in {"connect", "completed"}]_vars
    /\ [][(test_type = "reconnection"
           /\ reconnection_count' = reconnection_count + 1)
              => /\ now' = now
                 /\ task'.pc \in {"connect", "completed"}
                 /\ task'.pc = "connect" => task'.wait_began = now]_vars

\* C19 witness: an attempt has failed and was followed by its pause, an
\* interval has expired since, and the next attempt begins in that instant.
C19_Witness ==
    /\ test_type = "reconnection"
    /\ task.raised
    /\ task.pc = "connect"
    /\ reconnection_count >= 1
    /\ now = task.wait_began

\* C20: reconnection_test begins a connection attempt only while the total
\* elapsed time is below total_duration, has no open socket while it
\* connects or pauses, and has none when it has returned.
C20_NoAttemptAfterDeadline ==
    test_type = "reconnection" =>
        /\ task.pc = "connect" =>
               /\ task.wait_began - task.start_time < duration
               /\ ~task.socket_open
        /\ task.pc = "sleep" => ~task.socket_open
        /\ task.pc \in {"auth_send", "auth_recv", "subscribe", "recv"} =>
               task.socket_open
        /\ TaskEnded => ~task.socket_open

\* C20 witness: the reconnection test has returned after its total duration
\* with two intervals held.
C20_Witness ==
    /\ test_type = "reconnection"
    /\ task.pc = "completed"
    /\ now >= duration
    /\ reconnection_count >= 2

\* C26 (as claimed): during tick collection a notification is stored under
\* the subscribed channel whose name is identical to the notification's
\* channel name and under no other, also when one subscribed name is a
\* prefix or substring of another: every tick for a subscribed channel X is
\* in the list of X.
C26_StoredUnderOwnChannel ==
    \A ch \in DOMAIN tick_data :
        \A k \in 1..Len(tick_data[ch]) :
            tick_data[ch][k].channel \in DOMAIN tick_data =>
                tick_data[ch][k].channel = ch

\* Every tick list of the state before the step is a prefix of the list of
\* the same channel after it.
TickListsGrow ==
    \A ch \in DOMAIN tick_data :
        /\ ch \in DOMAIN tick_data'
        /\ Len(tick_data'[ch]) >= Len(tick_data[ch])
        /\ SubSeq(tick_data'[ch], 1, Len(tick_data[ch])) = tick_data[ch]

\* C27: in every tick list the tick numbers are strictly increasing in list
\* order, no tick number occurs twice in the run (in one list or in two),
\* every step of the collection only appends to the lists, and the step of
\* _analyze_tick_data leaves tick_data as it is.
C27_TickListsAppendOnly ==
    /\ [](\A ch \in DOMAIN tick_data :
             \A k \in 1..(Len(tick_data[ch]) - 1) :
                 tick_data[ch][k].tick_number < tick_data[ch][k + 1].tick_number)
    /\ [](\A ch1, ch2 \in DOMAIN tick_data :
             \A k1 \in 1..Len(tick_data[ch1]), k2 \in 1..Len(tick_data[ch2]) :
                 tick_data[ch1][k1].tick_number = tick_data[ch2][k2].tick_number
                     => (ch1 = ch2 /\ k1 = k2))
    /\ [][TickListsGrow]_vars
    /\ [][task.pc = "analyze" => tick_data' = tick_data]_vars

\* C27 witness: the analysis has run on a channel list that holds two ticks.
C27_Witness ==
    /\ report # None
    /\ \E ch \in DOMAIN tick_data : Len(tick_data[ch]) = 2

\* The stress run of five sessions with duration 0.
ZeroRun == num_connections = DefaultConnections /\ duration = 0

\* C10: a stress run with num_connections = 5 and duration = 0 returns, and
\* no session of it ever counts a message.
C10_ZeroDurationRun ==
    /\ [](ZeroRun => /\ total_messages = 0
                     /\ \A i \in Sessions : session[i].connection_messages = 0
                     /\ \A i \in Sessions : session[i].pc # "recv")
    /\ (ZeroRun ~> coord_pc = "returned")

\* C10 witness: the run of five sessions with duration 0 has returned after
\* every session connected and subscribed.
C10_Witness ==
    /\ ZeroRun
    /\ coord_pc = "returned"
    /\ connection_count = DefaultConnections
    /\ \A i \in Sessions : session[i].pc = "completed"

\* The delay-bearing records of channel ch.
ChannelDelays(ch) == Delays(tick_data[ch])

\* How many delays d of channel ch satisfy lo <= d < hi.
DelaysWithin(ch, lo, hi) ==
    Cardinality({k \in 1..Len(ChannelDelays(ch)) :
                    lo <= ChannelDelays(ch)[k] /\ ChannelDelays(ch)[k] < hi})

\* How many delays d of channel ch satisfy d >= lo.
DelaysAtLeast(ch, lo) ==
    Cardinality({k \in 1..Len(ChannelDelays(ch)) : ChannelDelays(ch)[k] >= lo})

\* C8 (as claimed): _analyze_tick_data never raises when channels are empty,
\* for every duration including 0, and reports each empty channel as "no
\* data".
C8_EmptyChannelsNeverFail ==
    (report # None /\ \E ch \in DOMAIN tick_data : tick_data[ch] = <<>>)
        => /\ ~report[1].raised
           /\ \A ch \in DOMAIN tick_data :
                  tick_data[ch] = <<>> => ch \in report[1].no_data

\* C9: when the analysis has run (duration not 0), each bucket count of a
\* channel with delays is the number of its delays d with lower <= d < upper
\* for the boundaries 0, 50, 100, 200, 500; and for one channel with the
\* delays 10, 60, 150, 600 the counts are 1, 1, 1, 0, 1 and the overall
\* average is 205.00 ms.
C9_BucketCounts ==
    (report # None /\ ~report[1].raised) =>
        /\ \A ch \in DOMAIN tick_data :
              ChannelDelays(ch) # <<>> =>
                  /\ report[1].ranges[ch] # None
                  /\ report[1].ranges[ch][1].r0_50 = DelaysWithin(ch, 0, 50)
                  /\ report[1].ranges[ch][1].r50_100 = DelaysWithin(ch, 50, 100)
                  /\ report[1].ranges[ch][1].r100_200 = DelaysWithin(ch, 100, 200)
                  /\ report[1].ranges[ch][1].r200_500 = DelaysWithin(ch, 200, 500)
                  /\ report[1].ranges[ch][1].r500_up = DelaysAtLeast(ch, 500)
        /\ (ChannelDelays(ChanTicker) = <<10, 60, 150, 600>>
            /\ tick_data[ChanBook] = <<>>)
               => /\ report[1].ranges[ChanTicker] =
                         Some([r0_50 |-> 1, r50_100 |-> 1, r100_200 |-> 1,
                               r200_500 |-> 0, r500_up |-> 1])
                  /\ report[1].overall_avg = Some(205 * 100)

\* C9 witness: the analysis has run on one channel with the delays 10, 60,
\* 150, 600.
C9_Witness ==
    /\ report # None
    /\ ~report[1].raised
    /\ ChannelDelays(ChanTicker) = <<10, 60, 150, 600>>
    /\ tick_data[ChanBook] = <<>>

\* The sum of the five bucket counts of a delay distribution.
BucketTotal(ranges) ==
    ranges.r0_50 + ranges.r50_100 + ranges.r100_200 + ranges.r200_500
        + ranges.r500_up

\* C23 (as claimed): the five buckets partition the delay-bearing records of
\* a channel: for every tick list the collection loop can produce, the
\* bucket counts add up to the number of delay-bearing records (and so the
\* percentages count / len(delays) * 100 add up to 100).
C23_BucketsPartitionDelays ==
    (report # None /\ ~report[1].raised) =>
        \A ch \in DOMAIN tick_data :
            report[1].ranges[ch] # None =>
                BucketTotal(report[1].ranges[ch][1]) = Len(ChannelDelays(ch))

\* The delay-bearing records of the run, as (channel, position) pairs.
DelayRecords ==
    {p \in (DOMAIN tick_data) \X (1..MaxTicks) :
        /\ p[2] <= Len(tick_data[p[1]])
        /\ tick_data[p[1]][p[2]].delay_ms # None}

\* The sum of the delays of the delay-bearing records.
DelayTotal ==
    SumOver([p \in DelayRecords |-> tick_data[p[1]][p[2]].delay_ms[1]],
            DelayRecords)

\* C24: when the analysis has run, no rating is produced without a
\* delay-bearing record; with at least one, the rating is EXCELLENT when the
\* average delay over all of them is below 50, GOOD when it is at least 50
\* and below 100, FAIR when it is at least 100 and below 200, and POOR
\* otherwise (the average compared as total against threshold * count).
C24_RatingBands ==
    (report # None /\ ~report[1].raised) =>
        LET n == Cardinality(DelayRecords)
        IN  /\ n = 0 => report[1].rating = None
            /\ n > 0 =>
                  /\ report[1].rating # None
                  /\ report[1].rating[1] = "EXCELLENT" <=> DelayTotal < 50 * n
                  /\ report[1].rating[1] = "GOOD" <=>
                         (50 * n <= DelayTotal /\ DelayTotal < 100 * n)
                  /\ report[1].rating[1] = "FAIR" <=>
                         (100 * n <= DelayTotal /\ DelayTotal < 200 * n)
                  /\ report[1].rating[1] = "POOR" <=> DelayTotal >= 200 * n

\* C24 witness: the analysis has rated a run whose only delay is 50 ms, the
\* boundary between EXCELLENT and GOOD.
C24_Witness ==
    /\ report # None
    /\ ~report[1].raised
    /\ ChannelDelays(ChanTicker) = <<50>>
    /\ ChannelDelays(ChanBook) = <<>>
    /\ report[1].rating = Some("GOOD")

\* How many delays of channel ch are below d, and how many are at most d.
DelaysBelow(ch, d) ==
    Cardinality({k \in 1..Len(ChannelDelays(ch)) : ChannelDelays(ch)[k] < d})
DelaysUpTo(ch, d) ==
    Cardinality({k \in 1..Len(ChannelDelays(ch)) : ChannelDelays(ch)[k] <= d})

\* The value at position k (from 1) of the delays of channel ch in ascending
\* order: fewer than k delays are below it and at least k are at most it.
RankedDelay(ch, k) ==
    CHOOSE d \in {ChannelDelays(ch)[j] : j \in 1..Len(ChannelDelays(ch))} :
        DelaysBelow(ch, d) < k /\ k <= DelaysUpTo(ch, d)

\* C25 (as claimed): the median delay reported for a channel is the
\* statistical median of its delay-bearing records: the middle value of the
\* sorted delays for an odd number of them, the mean of the two middle
\* values for an even number.
C25_MedianIsStatistical ==
    (report # None /\ ~report[1].raised) =>
        \A ch \in DOMAIN tick_data :
            report[1].medians[ch] # None =>
                LET n == Len(ChannelDelays(ch))
                    h == n \div 2
                IN  IF n % 2 = 1
                    THEN report[1].medians[ch][1] = RankedDelay(ch, h + 1)
                    ELSE 2 * report[1].medians[ch][1] =
                             RankedDelay(ch, h) + RankedDelay(ch, h + 1)

\* C28 (as claimed): every ws_metrics entry recorded by
\* monitor_websocket_performance carries the delay computed from the
\* producer timestamp of the message it was recorded for, or no latency
\* (None) when that message has no producer timestamp; never a delay of an
\* earlier message.
C28_DelayIsPerMessage ==
    [][\A frame \in MonitorFrames :
          MonitorRecv(frame) =>
              monitor'.ws_metrics[Len(monitor'.ws_metrics)].latency =
                  MessageLatency(frame)]_vars

\* How many logged results have the given success value.
ResultsWith(success) ==
    Cardinality({k \in 1..Len(tester.results) :
                    tester.results[k].success = success})

\* The test_name the k-th probe of the suite logs.
ExpectedName(k) ==
    IF k = AuthProbe /\ ~has_credentials THEN "Authentication Setup"
    ELSE ProbeNames[k]

\* C30: after any sequence of log_result calls total_tests = passed_tests +
\* failed_tests = len(results), passed_tests counts the results with success
\* and failed_tests those without; and run_all_tests logs exactly one result
\* per probe, in order, whatever each probe's outcome: after k probes there
\* are k results, and the suite reaches its end.
C30_OneResultPerProbe ==
    /\ tester.total_tests = tester.passed_tests + tester.failed_tests
    /\ tester.total_tests = Len(tester.results)
    /\ tester.passed_tests = ResultsWith(TRUE)
    /\ tester.failed_tests = ResultsWith(FALSE)
    /\ tester.pc >= 1 => Len(tester.results) = tester.pc - 1
    /\ \A k \in 1..Len(tester.results) :
          tester.results[k].test_name = ExpectedName(k)
    /\ tester.pc <= NumProbes => ENABLED NextSuite

\* C30 witness: the suite has run to its end without credentials, with
\* passed and failed probes.
C30_Witness ==
    /\ tester.pc = NumProbes + 1
    /\ ~has_credentials
    /\ tester.passed_tests > 0
    /\ tester.failed_tests > 1

====
